---- MODULE Spec2Model ----
(***************************************************************************)
(* Model of the pull-request review reporter (src/main.js, the GraphQL     *)
(* revision, lines 315-958): main() walks the configured (repository,      *)
(* pull request) units; for each unit getPRReviewCommentsWithReactions     *)
(* fetches the review threads, turns the first comment of every thread     *)
(* into a row, scores every participant and hands rows, commenters,        *)
(* reactionStats and stats to renderExcel or renderPDF.                    *)
(*                                                                         *)
(* One iteration of the thread loop is one step.  The threads of the       *)
(* response are revealed one per iteration (the loop never looks ahead);   *)
(* the thread taken last is kept in the loop variable `thread`.            *)
(***************************************************************************)
EXTENDS Integers, Sequences, FiniteSets, TLC

(***************************************************************************)
(* Bounds of the model.                                                    *)
(***************************************************************************)
MaxUnits == 2
MaxThreads == 3
MaxReactions == 2

(***************************************************************************)
(* Input domain: handles, reaction kinds, the shape of a thread.           *)
(***************************************************************************)
Null == "null"

\* Handles.  A row is a JavaScript object that holds one key per handle next to
\* its own fields (Comment, proposer, thumbsUpCount, thumbsDownCount, reactions,
\* Reported); the handles of the model are none of these field names.
Users == {"a", "b"}
Contents == {"THUMBS_UP", "THUMBS_DOWN", "ROCKET", "EYES", "HEART", "party"}

ThumbsUp == "(+1)"
ThumbsDown == "(-1)"
Laugh == "(laugh)"
Hooray == "(hooray)"
Confused == "(confused)"
Heart == "(heart)"
Rocket == "(rocket)"
Eyes == "(eyes)"

Proposer == "Proposer"
Check == "(check)"
Cross == "(cross)"

Green == "GREEN"
Yellow == "YELLOW"
Orange == "ORANGE"
Red == "RED"
NoBand == ""

\* A reaction node: a reaction whose user is null carries no usable handle,
\* the code fails on it before it looks at the content.
ReactionNodes ==
    [content : Contents, user : Users] \cup {[content |-> "EYES", user |-> Null]}

RECURSIVE SeqsUpTo(_, _)
SeqsUpTo(S, n) ==
    IF n = 0 THEN {<<>>}
    ELSE LET shorter == SeqsUpTo(S, n - 1)
         IN shorter \cup {Append(s, x) : s \in {t \in shorter : Len(t) = n - 1}, x \in S}

ReactionLists == SeqsUpTo(ReactionNodes, MaxReactions)

\* A review thread with its one comment (comments(first: 1)).  A comment whose
\* author is null fails before its reactions are read.
ThreadNodes ==
    [isResolved : BOOLEAN, author : Users, reactions : ReactionLists]
        \cup [isResolved : BOOLEAN, author : {Null}, reactions : {<<>>}]

NoThread == [isResolved |-> FALSE, author |-> Null, reactions |-> <<>>]

(***************************************************************************)
(* getEmoji                                                                *)
(***************************************************************************)
\* content.toUpperCase(), on the strings of the model: the ones listed have a
\* lower-case letter, every other one is its own upper case.
toUpperCase(s) ==
    CASE s = "thumbs_up" -> "THUMBS_UP"
      [] s = "Thumbs_Up" -> "THUMBS_UP"
      [] s = "thumbs_down" -> "THUMBS_DOWN"
      [] s = "Thumbs_Down" -> "THUMBS_DOWN"
      [] s = "laugh" -> "LAUGH"
      [] s = "Laugh" -> "LAUGH"
      [] s = "hooray" -> "HOORAY"
      [] s = "Hooray" -> "HOORAY"
      [] s = "confused" -> "CONFUSED"
      [] s = "Confused" -> "CONFUSED"
      [] s = "heart" -> "HEART"
      [] s = "Heart" -> "HEART"
      [] s = "rocket" -> "ROCKET"
      [] s = "Rocket" -> "ROCKET"
      [] s = "eyes" -> "EYES"
      [] s = "Eyes" -> "EYES"
      [] s = "tHuMbS_uP" -> "THUMBS_UP"
      [] s = "party" -> "PARTY"
      [] s = "Party" -> "PARTY"
      [] s = "thumbsup" -> "THUMBSUP"
      [] s = "rockets" -> "ROCKETS"
      [] s = "eye" -> "EYE"
      [] OTHER -> s

emojiMapKeys ==
    {"THUMBS_UP", "THUMBS_DOWN", "LAUGH", "HOORAY", "CONFUSED", "HEART", "ROCKET", "EYES"}

emojiMap(k) ==
    CASE k = "THUMBS_UP" -> ThumbsUp
      [] k = "THUMBS_DOWN" -> ThumbsDown
      [] k = "LAUGH" -> Laugh
      [] k = "HOORAY" -> Hooray
      [] k = "CONFUSED" -> Confused
      [] k = "HEART" -> Heart
      [] k = "ROCKET" -> Rocket
      [] k = "EYES" -> Eyes

\* getEmoji that looks the content up as it is written.
getEmojiCaseSensitive(content) ==
    IF content \in emojiMapKeys THEN emojiMap(content) ELSE content

getEmoji(content) ==
    IF toUpperCase(content) \in emojiMapKeys
    THEN emojiMap(toUpperCase(content))
    ELSE content

(***************************************************************************)
(* truncateText.  A text is the sequence of its characters.                *)
(***************************************************************************)
Ellipsis == <<".", ".", ".">>

\* The default of the parameter charLimit.
DefaultCharLimit == 300

\* text.slice(0, end) for an end that is not negative.
slice(text, end) == SubSeq(text, 1, IF end < Len(text) THEN end ELSE Len(text))

\* truncateText with < in the place of <=.
truncateTextStrict(text, charLimit) ==
    IF Len(text) < charLimit THEN text ELSE slice(text, charLimit) \o Ellipsis

\* Lines 367-372.
truncateText(text, charLimit) ==
    IF Len(text) <= charLimit THEN text ELSE slice(text, charLimit) \o Ellipsis

(***************************************************************************)
(* The row of one comment and the per-comment part of the thread loop.     *)
(***************************************************************************)
includes(seq, x) == \E i \in 1..Len(seq) : seq[i] = x

\* pushIfNew without the includes test.
pushAlways(seq, x) == Append(seq, x)

pushIfNew(seq, x) == IF includes(seq, x) THEN seq ELSE Append(seq, x)

\* Lines 447-462: the row before any reaction is looked at.  row[user] is the
\* cell of a handle ("" when the row has no such key).
newRow(id, login) ==
    [id |-> id,
     proposer |-> login,
     thumbsUpCount |-> 0,
     thumbsDownCount |-> 0,
     cells |-> [u \in Users |-> IF u = login THEN Proposer ELSE ""],
     reactions |-> {},
     Reported |-> ""]

\* Lines 473-491: the switch on the glyph.  acc = [row, commenters, hasRocket,
\* warned, threw]; warned collects the arguments of console.warn.
switchEmoji(acc, user, emoji) ==
    CASE emoji = Rocket ->
            [acc EXCEPT !.hasRocket = TRUE]
      [] emoji = ThumbsUp ->
            [acc EXCEPT !.row = [acc.row EXCEPT !.cells[user] = emoji,
                                                !.thumbsUpCount = @ + 1,
                                                !.reactions = @ \cup {user}]]
      [] emoji = ThumbsDown ->
            [acc EXCEPT !.row = [acc.row EXCEPT !.cells[user] = emoji,
                                                !.thumbsDownCount = @ + 1,
                                                !.reactions = @ \cup {user}]]
      [] emoji = Eyes ->
            acc
      [] OTHER ->
            [acc EXCEPT !.warned = Append(@, [emoji |-> emoji, user |-> user])]

\* onReaction with an eyes case that tracks the reactor in row.reactions.
onReactionEyesTracked(acc, reaction) ==
    LET a == [acc EXCEPT !.commenters = pushIfNew(@, reaction.user)]
    IN  IF getEmoji(reaction.content) = Eyes
        THEN [a EXCEPT !.row = [a.row EXCEPT !.reactions = @ \cup {reaction.user}]]
        ELSE switchEmoji(a, reaction.user, getEmoji(reaction.content))

\* onReaction with a default case that also writes the glyph to the cell.
onReactionPassthrough(acc, reaction) ==
    LET a == [acc EXCEPT !.commenters = pushIfNew(@, reaction.user)]
        emoji == getEmoji(reaction.content)
        b == switchEmoji(a, reaction.user, emoji)
    IN  IF emoji \in {Rocket, ThumbsUp, ThumbsDown, Eyes}
        THEN b
        ELSE [b EXCEPT !.row = [b.row EXCEPT !.cells[reaction.user] = emoji]]

\* onReaction with a rocket case that also writes the glyph to the cell.
onReactionRocketCell(acc, reaction) ==
    LET a == [acc EXCEPT !.commenters = pushIfNew(@, reaction.user)]
        emoji == getEmoji(reaction.content)
        b == switchEmoji(a, reaction.user, emoji)
    IN  IF emoji = Rocket
        THEN [b EXCEPT !.row = [b.row EXCEPT !.cells[reaction.user] = emoji]]
        ELSE b

\* onReaction that keeps a vote already in the cell.
onReactionFirstVoteKept(acc, reaction) ==
    LET a == [acc EXCEPT !.commenters = pushIfNew(@, reaction.user)]
        before == a.row.cells[reaction.user]
        b == switchEmoji(a, reaction.user, getEmoji(reaction.content))
    IN  IF before \in {ThumbsUp, ThumbsDown}
        THEN [b EXCEPT !.row = [b.row EXCEPT !.cells[reaction.user] = before]]
        ELSE b

\* Lines 466-492, one call of the forEach callback on a reaction whose user is
\* not null: the handle is registered, then the glyph is switched on.
onReaction(acc, reaction) ==
    switchEmoji([acc EXCEPT !.commenters = pushIfNew(@, reaction.user)],
                reaction.user, getEmoji(reaction.content))

\* The forEach over comment.reactions.nodes: a reaction with a null user makes
\* reaction.user.login throw, the remaining reactions are never visited.
RECURSIVE forEachReaction(_, _, _)
forEachReaction(acc, reactions, i) ==
    IF i > Len(reactions) THEN acc
    ELSE IF reactions[i].user = Null THEN [acc EXCEPT !.threw = TRUE]
    ELSE forEachReaction(onReaction(acc, reactions[i]), reactions, i + 1)

\* push that puts the record at the front.
unshift(seq, x) == <<x>> \o seq

\* Lines 508-509: rows.push(row), comments.push(row).
push(seq, x) == Append(seq, x)

\* updateStats without the else branch of lines 503-506.
updateStatsNoPending(st, isResolved, hasRocket) ==
    IF isResolved
    THEN IF hasRocket THEN [st EXCEPT !.reported = @ + 1]
                      ELSE [st EXCEPT !.nonReported = @ + 1]
    ELSE st

\* Lines 494-506.
updateStats(st, isResolved, hasRocket) ==
    IF isResolved
    THEN IF hasRocket THEN [st EXCEPT !.reported = @ + 1]
                      ELSE [st EXCEPT !.nonReported = @ + 1]
    ELSE [st EXCEPT !.pending = @ + 1]

\* reportedOf with the rocket looked at before the resolution flag.
reportedOfRocketFirst(isResolved, hasRocket) ==
    IF hasRocket THEN Check ELSE (IF isResolved THEN Cross ELSE "")

\* Line 496, and no Reported key on an unresolved thread.
reportedOf(isResolved, hasRocket) ==
    IF isResolved THEN (IF hasRocket THEN Check ELSE Cross) ELSE ""

(***************************************************************************)
(* The second pass and the percentages (lines 519-552).                    *)
(***************************************************************************)
\* trackerTotal without the username !== proposer test of line 531.
trackerTotalAll(cms, username) == Len(cms)

\* Lines 530-533.
trackerTotal(cms, username) ==
    Cardinality({i \in 1..Len(cms) : username # cms[i].proposer})

\* trackerReacted that adds the votes of the comment in the place of 1.
RECURSIVE trackerReactedVotes(_, _)
trackerReactedVotes(cms, username) ==
    IF cms = <<>> THEN 0
    ELSE LET c == cms[Len(cms)]
         IN  trackerReactedVotes(SubSeq(cms, 1, Len(cms) - 1), username)
                + (IF username # c.proposer /\ username \in c.reactions
                   THEN c.thumbsUpCount + c.thumbsDownCount
                   ELSE 0)

\* Lines 530-537.
trackerReacted(cms, username) ==
    Cardinality({i \in 1..Len(cms) :
                    username # cms[i].proposer /\ username \in cms[i].reactions})

\* percentageOf with Math.floor in the place of Math.round.
percentageOfFloor(reacted, total) ==
    IF total = 0 THEN 100 ELSE (100 * reacted) \div total

\* Lines 546-547, Math.round((reacted / total) * 100): the nearest integer, a
\* half rounds up.  (The quotient is a double in the code; it is exact enough
\* to round as the rational does whenever 100 * reacted / total is not an odd
\* multiple of one half, which needs a total that 8 divides.)
percentageOf(reacted, total) ==
    IF total = 0 THEN 100 ELSE (200 * reacted + total) \div (2 * total)

reactionStatsOf(cms, cs) ==
    [username \in {cs[i] : i \in 1..Len(cs)} |->
        [reacted |-> trackerReacted(cms, username),
         total |-> trackerTotal(cms, username),
         percentage |-> percentageOf(trackerReacted(cms, username),
                                     trackerTotal(cms, username))]]

(***************************************************************************)
(* Row classifier.                                                         *)
(***************************************************************************)
THRESHOLD_HIGH == 90
THRESHOLD_MEDIUM == 70
THRESHOLD_LOW == 50

\* getColorForPercentage with > in the place of >=.
getColorAbove(percentage) ==
    IF percentage > THRESHOLD_HIGH THEN Green
    ELSE IF percentage > THRESHOLD_MEDIUM THEN Yellow
    ELSE IF percentage > THRESHOLD_LOW THEN Orange
    ELSE Red

getColorForPercentage(percentage) ==
    IF percentage >= THRESHOLD_HIGH THEN Green
    ELSE IF percentage >= THRESHOLD_MEDIUM THEN Yellow
    ELSE IF percentage >= THRESHOLD_LOW THEN Orange
    ELSE Red

\* thumbsUpCount + 1 >= (2 / 3) * commenters.length
greenCondition(up, n) == 3 * (up + 1) >= 2 * n

\* thumbsDownCount >= (2 / 3) * (commenters.length - 1)
redCondition(down, n) == 3 * down >= 2 * (n - 1)

\* renderExcel, lines 716-731: two independent ifs, the second fill replaces
\* the first.
excelFill(up, down, n) ==
    LET afterGreen == IF greenCondition(up, n) THEN Green ELSE NoBand
    IN  IF redCondition(down, n) THEN Red ELSE afterGreen

\* renderPDF, lines 871-876: if / else if.
pdfRowClass(up, down, n) ==
    IF greenCondition(up, n) THEN Green
    ELSE IF redCondition(down, n) THEN Red
    ELSE NoBand

(***************************************************************************)
(* State.                                                                  *)
(***************************************************************************)
VARIABLES
    format,         \* --format, fixed before main runs
    unit,           \* index of the loop over repos
    pc,             \* position of the run
    threadCount,    \* reviewThreads.length of the response being walked
    ti,             \* number of threads the loop has taken
    fetched,        \* number of reaction nodes of the threads taken so far
    thread,         \* the loop variable: the thread taken last
    hasRocket,      \* the local of the iteration run last
    rows,
    comments,
    commenters,
    stats,
    warned,         \* console.warn("Incorrect emoji", ...) of the iteration run last
    error,          \* what the catch block caught: "none", "fetch" or "type"
    reactionStats,
    sheet,          \* what the renderer emitted for the unit at hand
    workbook,       \* number of worksheets / report sections emitted so far
    remote,         \* the threads the platform holds for a pull request that
                    \* the configuration names twice (empty when it names none)
    first,          \* what the call for the first unit returned, when kept
    probe           \* a helper called on its own: its arguments and its result

vars == <<format, unit, pc, threadCount, ti, fetched, thread, hasRocket, rows,
          comments, commenters, stats, warned, error, reactionStats, sheet, workbook,
          remote, first, probe>>

ZeroStats == [reported |-> 0, nonReported |-> 0, pending |-> 0]
NoSheet == [present |-> FALSE, summary |-> ZeroStats, reviewers |-> <<>>, bands |-> <<>>]
NoStats == [u \in {} |-> 0]
NoProbe == [fn |-> "none"]
NoReturn == [rows |-> <<>>, commenters |-> <<>>, reactionStats |-> NoStats, stats |-> ZeroStats]

InitRun ==
    /\ unit = 1
    /\ pc = "call"
    /\ threadCount = 0
    /\ ti = 0
    /\ fetched = 0
    /\ thread = NoThread
    /\ hasRocket = FALSE
    /\ rows = <<>>
    /\ comments = <<>>
    /\ commenters = <<>>
    /\ stats = ZeroStats
    /\ warned = <<>>
    /\ error = "none"
    /\ reactionStats = NoStats
    /\ sheet = NoSheet
    /\ probe = NoProbe
    /\ workbook = 0
    /\ first = NoReturn

\* Call with the counters declared outside the function.
CallKeepsStats ==
    /\ pc = "call"
    /\ unit <= MaxUnits
    /\ rows' = <<>>
    /\ comments' = <<>>
    /\ commenters' = <<>>
    /\ stats' = stats
    /\ warned' = <<>>
    /\ error' = "none"
    /\ reactionStats' = NoStats
    /\ threadCount' = 0
    /\ ti' = 0
    /\ fetched' = 0
    /\ thread' = NoThread
    /\ hasRocket' = FALSE
    /\ sheet' = NoSheet
    /\ pc' = "fetch"
    /\ UNCHANGED <<probe, remote, first, format, unit, workbook>>

\* Lines 590-595 / 801-806 and 375-384: the renderer's loop takes the next unit
\* and calls getPRReviewCommentsWithReactions, which declares its locals.
Call ==
    /\ pc = "call"
    /\ unit <= MaxUnits
    /\ rows' = <<>>
    /\ comments' = <<>>
    /\ commenters' = <<>>
    /\ stats' = ZeroStats
    /\ warned' = <<>>
    /\ error' = "none"
    /\ reactionStats' = NoStats
    /\ threadCount' = 0
    /\ ti' = 0
    /\ fetched' = 0
    /\ thread' = NoThread
    /\ hasRocket' = FALSE
    /\ sheet' = NoSheet
    /\ pc' = "fetch"
    /\ UNCHANGED <<probe, remote, first, format, unit, workbook>>

\* Lines 420-426: the query answers with n threads.
FetchOk ==
    /\ pc = "fetch"
    /\ \E n \in 0..MaxThreads : threadCount' = n
    /\ pc' = "loop"
    /\ UNCHANGED <<probe, remote, first, format, unit, ti, fetched, thread, hasRocket, rows, comments,
                   commenters, stats, warned, error, reactionStats, sheet, workbook>>

\* FetchFail with a catch block that ends the run.
FetchFailEndsRun ==
    /\ pc = "fetch"
    /\ error' = "fetch"
    /\ pc' = "done"
    /\ UNCHANGED <<probe, remote, first, format, unit, threadCount, ti, fetched, thread, hasRocket, rows,
                   comments, commenters, stats, warned, reactionStats, sheet, workbook>>

\* Lines 420 and 512-517: the query rejects, the catch block logs.
FetchFail ==
    /\ pc = "fetch"
    /\ error' = "fetch"
    /\ pc' = "caught"
    /\ UNCHANGED <<probe, remote, first, format, unit, threadCount, ti, fetched, thread, hasRocket, rows,
                   comments, commenters, stats, warned, reactionStats, sheet, workbook>>

\* Lines 429-510 for one thread th, and the catch block when it throws.
ProcessThread(th) ==
    /\ pc = "loop"
    /\ ti < threadCount
    /\ ti' = ti + 1
    /\ fetched' = fetched + Len(th.reactions)
    /\ thread' = th
    /\ IF th.author = Null
       THEN \* commenter.login throws at line 442
            /\ error' = "type"
            /\ pc' = "caught"
            /\ warned' = <<>>
            /\ hasRocket' = FALSE
            /\ UNCHANGED <<rows, comments, commenters, stats>>
       ELSE LET acc0 == [row |-> newRow(ti + 1, th.author),
                         commenters |-> pushIfNew(commenters, th.author),
                         hasRocket |-> FALSE,
                         warned |-> <<>>,
                         threw |-> FALSE]
                acc == forEachReaction(acc0, th.reactions, 1)
                row == [acc.row EXCEPT !.Reported = reportedOf(th.isResolved, acc.hasRocket)]
            IN  /\ commenters' = acc.commenters
                /\ warned' = acc.warned
                /\ hasRocket' = acc.hasRocket
                /\ IF acc.threw
                   THEN /\ error' = "type"
                        /\ pc' = "caught"
                        /\ UNCHANGED <<rows, comments, stats>>
                   ELSE /\ stats' = updateStats(stats, th.isResolved, acc.hasRocket)
                        /\ rows' = push(rows, row)
                        /\ comments' = push(comments, row)
                        /\ UNCHANGED <<error, pc>>
    /\ UNCHANGED <<probe, remote, first, format, unit, threadCount, reactionStats, sheet, workbook>>

Loop ==
    /\ pc = "loop"
    /\ ti < threadCount
    /\ \E th \in ThreadNodes :
          /\ fetched + Len(th.reactions) <= MaxReactions
          /\ ProcessThread(th)

\* Lines 519-554: the second pass, the percentages and the return.  The locals
\* that are not returned end here.
ScoreBody ==
    /\ \/ pc = "loop" /\ ti = threadCount
       \/ pc = "caught"
    /\ reactionStats' = reactionStatsOf(comments, commenters)
    /\ comments' = <<>>
    /\ thread' = NoThread
    /\ hasRocket' = FALSE
    /\ warned' = <<>>
    /\ threadCount' = 0
    /\ ti' = 0
    /\ fetched' = 0
    /\ pc' = "render"
    /\ UNCHANGED <<format, unit, rows, commenters, stats, error, sheet, workbook, remote,
                   probe>>

Score == ScoreBody /\ UNCHANGED first

\* Score, with the value returned for the first unit kept for comparison.
ScoreKept ==
    /\ ScoreBody
    /\ first' = IF unit = 1
                THEN [rows |-> rows, commenters |-> commenters,
                      reactionStats |-> reactionStats', stats |-> stats]
                ELSE first

\* Lines 694-732: the fill of every comment row of the worksheet.
excelBands(rs, cs) ==
    [i \in 1..Len(rs) |-> excelFill(rs[i].thumbsUpCount, rs[i].thumbsDownCount, Len(cs))]

\* Lines 866-892: the class of every comment row of the table.
pdfBands(rs, cs) ==
    [i \in 1..Len(rs) |-> pdfRowClass(rs[i].thumbsUpCount, rs[i].thumbsDownCount, Len(cs))]

\* What both renderers emit for a unit: the issues summary, one coloured line
\* per reviewer, one highlighted line per comment row.
sheetOf(bands) ==
    [present |-> TRUE,
     summary |-> stats,
     reviewers |-> [i \in 1..Len(commenters) |->
                      getColorForPercentage(reactionStats[commenters[i]].percentage)],
     bands |-> bands]

\* renderExcel, lines 597-734: the worksheet of the unit.
RenderExcel ==
    /\ pc = "render"
    /\ format = "excel"
    /\ sheet' = sheetOf(excelBands(rows, commenters))
    /\ workbook' = workbook + 1
    /\ pc' = "next"
    /\ UNCHANGED <<probe, remote, first, format, unit, threadCount, ti, fetched, thread, hasRocket, rows,
                   comments, commenters, stats, warned, error, reactionStats>>

\* renderPDF, lines 808-894: the section of the unit.
RenderPDF ==
    /\ pc = "render"
    /\ format = "pdf"
    /\ sheet' = sheetOf(pdfBands(rows, commenters))
    /\ workbook' = workbook + 1
    /\ pc' = "next"
    /\ UNCHANGED <<probe, remote, first, format, unit, threadCount, ti, fetched, thread, hasRocket, rows,
                   comments, commenters, stats, warned, error, reactionStats>>

\* End of the loop body (line 734 / 895): the next unit, or the file is written.
NextUnit ==
    /\ pc = "next"
    /\ unit' = unit + 1
    /\ pc' = IF unit = MaxUnits THEN "done" ELSE "call"
    /\ UNCHANGED <<probe, remote, first, format, threadCount, ti, fetched, thread, hasRocket, rows, comments,
                   commenters, stats, warned, error, reactionStats, sheet, workbook>>

Aggregate == Call \/ FetchOk \/ FetchFail \/ Loop \/ Score

\* node main.js (format defaults to "pdf", line 946).
Init == format = "pdf" /\ remote = <<>> /\ InitRun

Next == Aggregate \/ RenderPDF \/ NextUnit

Spec == Init /\ [][Next]_vars

\* node main.js --format=excel
InitExcel == format = "excel" /\ remote = <<>> /\ InitRun

NextExcel == Aggregate \/ RenderExcel \/ NextUnit

SpecExcel == InitExcel /\ [][NextExcel]_vars

(***************************************************************************)
(* A configuration that names the same pull request in both units, the     *)
(* platform holding the same threads for both calls.                       *)
(***************************************************************************)
MaxRerunThreads == 2

RECURSIVE Responses(_, _)
Responses(n, budget) ==
    IF n = 0 THEN {<<>>}
    ELSE {<<>>} \cup
         UNION {{<<th>> \o rest : rest \in Responses(n - 1, budget - Len(th.reactions))} :
                   th \in {t \in ThreadNodes : Len(t.reactions) <= budget}}

\* Lines 420-426: the query answers with the threads the platform holds.
FetchRemote ==
    /\ pc = "fetch"
    /\ threadCount' = Len(remote)
    /\ pc' = "loop"
    /\ UNCHANGED <<probe, remote, first, format, unit, ti, fetched, thread, hasRocket, rows,
                   comments, commenters, stats, warned, error, reactionStats, sheet,
                   workbook>>

LoopRemote ==
    /\ pc = "loop"
    /\ ti < threadCount
    /\ ProcessThread(remote[ti + 1])

InitRerun ==
    /\ format = "pdf"
    /\ remote \in Responses(MaxRerunThreads, MaxReactions)
    /\ InitRun

NextRerun == Call \/ FetchRemote \/ LoopRemote \/ ScoreKept \/ RenderPDF \/ NextUnit

SpecRerun == InitRerun /\ [][NextRerun]_vars

(***************************************************************************)
(* The helpers called on their own, on arguments of every shape.           *)
(***************************************************************************)
MaxTextLen == 4
MaxCharLimit == 5
MaxExcess == 20

Chars == {"x", "."}
\* The short texts, and texts as long as the default limit or one off it.
LongTexts == {[i \in 1..n |-> "x"] : n \in (DefaultCharLimit - 1)..(DefaultCharLimit + 1)}
Texts == SeqsUpTo(Chars, MaxTextLen) \cup LongTexts
CharLimits == (0..MaxCharLimit) \cup {DefaultCharLimit}

\* The three spellings of a known kind, and one in mixed case.
lowerOf(k) ==
    CASE k = "THUMBS_UP" -> "thumbs_up"
      [] k = "THUMBS_DOWN" -> "thumbs_down"
      [] k = "LAUGH" -> "laugh"
      [] k = "HOORAY" -> "hooray"
      [] k = "CONFUSED" -> "confused"
      [] k = "HEART" -> "heart"
      [] k = "ROCKET" -> "rocket"
      [] k = "EYES" -> "eyes"

capitalOf(k) ==
    CASE k = "THUMBS_UP" -> "Thumbs_Up"
      [] k = "THUMBS_DOWN" -> "Thumbs_Down"
      [] k = "LAUGH" -> "Laugh"
      [] k = "HOORAY" -> "Hooray"
      [] k = "CONFUSED" -> "Confused"
      [] k = "HEART" -> "Heart"
      [] k = "ROCKET" -> "Rocket"
      [] k = "EYES" -> "Eyes"

spellingsOf(k) ==
    {k, lowerOf(k), capitalOf(k)} \cup (IF k = "THUMBS_UP" THEN {"tHuMbS_uP"} ELSE {})

KnownSpellings == UNION {spellingsOf(k) : k \in emojiMapKeys}

OtherContents ==
    {"party", "Party", "PARTY", "", "+1", "thumbsup", "THUMBSUP", "rockets", "eye", "EYE"}

ContentInputs == KnownSpellings \cup OtherContents

Percentages == (0 - MaxExcess)..(100 + MaxExcess)

otherVars == <<format, unit, pc, threadCount, ti, fetched, thread, hasRocket, rows,
               comments, commenters, stats, warned, error, reactionStats, sheet,
               workbook, remote, first>>

TruncateTextCall ==
    /\ \E text \in Texts, charLimit \in CharLimits :
          probe' = [fn |-> "truncateText", text |-> text, charLimit |-> charLimit,
                    result |-> truncateText(text, charLimit)]
    /\ UNCHANGED otherVars

GetEmojiCall ==
    /\ \E content \in ContentInputs :
          probe' = [fn |-> "getEmoji", content |-> content, result |-> getEmoji(content)]
    /\ UNCHANGED otherVars

GetColorCall ==
    /\ \E percentage \in Percentages :
          probe' = [fn |-> "getColorForPercentage", percentage |-> percentage,
                    result |-> getColorForPercentage(percentage)]
    /\ UNCHANGED otherVars

InitHelpers == format = "pdf" /\ remote = <<>> /\ InitRun

NextHelpers == TruncateTextCall \/ GetEmojiCall \/ GetColorCall

SpecHelpers == InitHelpers /\ [][NextHelpers]_vars

(***************************************************************************)
(* Properties.                                                             *)
(***************************************************************************)
Returned == pc \in {"render", "next"}
Rendered == pc = "next"
LoopOver == (pc = "loop" /\ ti = threadCount) \/ pc = "caught"

HasRocketReaction(th) ==
    \E i \in 1..Len(th.reactions) : toUpperCase(th.reactions[i].content) = "ROCKET"

CommenterSet == {commenters[i] : i \in 1..Len(commenters)}

authoredBy(P) == Cardinality({j \in 1..Len(rows) : rows[j].proposer = P})

\* C1: at every point of the pass and after it, the three counters add up to
\* the number of comment records in rows.
C1_StatsSumEqualsRows ==
    stats.reported + stats.nonReported + stats.pending = Len(rows)

C1_Witness ==
    /\ pc = "loop"
    /\ Len(rows) = 3
    /\ stats.reported = 1
    /\ stats.nonReported = 1
    /\ stats.pending = 1

C4_Percentage ==
    Returned =>
        \A P \in CommenterSet :
            LET s == reactionStats[P]
                off == 100 * s.reacted - s.percentage * s.total
            IN  /\ s.percentage \in 0..100
                /\ s.total = 0 => s.percentage = 100
                /\ s.total > 0 => (2 * off <= s.total /\ -2 * off <= s.total)

C4_Witness ==
    /\ pc = "render"
    /\ Len(rows) = 3
    /\ \E P, Q \in CommenterSet :
          /\ authoredBy(P) = 3
          /\ reactionStats[P].total = 0
          /\ reactionStats[P].percentage = 100
          /\ reactionStats[Q].total = 3
          /\ reactionStats[Q].reacted = 2
          /\ reactionStats[Q].percentage = 67

\* C5: every rendered row is Green when approvalCount + 1 >= (2/3) * n, Red
\* when disapprovalCount >= (2/3) * (n - 1) (and the row is not Green), and has
\* no highlight when neither condition holds.
C5_HighlightLaw ==
    Rendered =>
        \A i \in 1..Len(rows) :
            LET up == rows[i].thumbsUpCount
                down == rows[i].thumbsDownCount
                n == Len(commenters)
            IN  /\ greenCondition(up, n) => sheet.bands[i] = Green
                /\ (redCondition(down, n) /\ ~greenCondition(up, n)) => sheet.bands[i] = Red
                /\ (~greenCondition(up, n) /\ ~redCondition(down, n)) => sheet.bands[i] = NoBand

\* C6: a rendered row for which both highlight conditions hold is Green, and
\* the Excel renderer and the PDF renderer give every row the same band.
C6_GreenPrecedence ==
    Rendered =>
        \A i \in 1..Len(rows) :
            LET up == rows[i].thumbsUpCount
                down == rows[i].thumbsDownCount
                n == Len(commenters)
            IN  /\ (greenCondition(up, n) /\ redCondition(down, n)) => sheet.bands[i] = Green
                /\ excelFill(up, down, n) = pdfRowClass(up, down, n)

\* C7: a rendered row is green if more than two-thirds of the commenters
\* reacted to it with thumbs-up, red if more than two-thirds of the commenters
\* reacted to it with thumbs-down.
C7_ReadmeHighlights ==
    Rendered =>
        \A i \in 1..Len(rows) :
            LET ups == Cardinality({u \in CommenterSet : rows[i].cells[u] = ThumbsUp})
                downs == Cardinality({u \in CommenterSet : rows[i].cells[u] = ThumbsDown})
                n == Len(commenters)
            IN  /\ 3 * ups > 2 * n => sheet.bands[i] = Green
                /\ 3 * downs > 2 * n => sheet.bands[i] = Red

\* C8: the second call on the same threads returns the same rows, participant
\* list, engagement stats and counters as the first one, and every call starts
\* with nothing left over from the call before it.
C8_RerunIdentical ==
    /\ (unit = 2 /\ Returned) =>
          [rows |-> rows, commenters |-> commenters,
           reactionStats |-> reactionStats, stats |-> stats] = first
    /\ pc = "fetch" =>
          /\ rows = <<>>
          /\ comments = <<>>
          /\ commenters = <<>>
          /\ stats = ZeroStats
          /\ reactionStats = NoStats

C8_Witness ==
    /\ unit = 2
    /\ pc = "render"
    /\ Len(remote) = 2
    /\ Len(rows) = 2
    /\ Len(commenters) = 2
    /\ stats.reported = 1
    /\ \E P \in CommenterSet : reactionStats[P].reacted = 1
    /\ first.rows = rows

\* C9: when the thread loop is over, every thread of the response has yielded
\* a comment record.
C9_NoPartialPass ==
    (LoopOver /\ error # "fetch") => Len(rows) = threadCount

\* C10 as stated: a unit whose retrieval failed has no rows, no participants,
\* zero counters and nothing rendered for it.
C10_NothingRendered ==
    error = "fetch" =>
        /\ rows = <<>>
        /\ commenters = <<>>
        /\ stats = ZeroStats
        /\ ~sheet.present

\* C10 amended: a unit whose retrieval failed has no rows, no participants and
\* zero counters; its section is still rendered, with a zero summary, no
\* reviewer line and no comment row; the run goes on with the next unit, each
\* unit being rendered before the next one is called, up to the last one.
C10_FailedUnitRenderedEmpty ==
    /\ error = "fetch" =>
          /\ rows = <<>>
          /\ commenters = <<>>
          /\ stats = ZeroStats
          /\ Rendered =>
                sheet = [present |-> TRUE, summary |-> ZeroStats,
                         reviewers |-> <<>>, bands |-> <<>>]
    /\ pc \in {"call", "fetch", "loop", "caught", "render"} =>
          (unit <= MaxUnits /\ workbook = unit - 1)
    /\ pc = "next" => (unit <= MaxUnits /\ workbook = unit)
    /\ pc = "done" => (unit = MaxUnits + 1 /\ workbook = MaxUnits)

C10_Witness ==
    /\ error = "fetch"
    /\ pc = "next"
    /\ unit < MaxUnits
    /\ sheet.present
    /\ workbook = unit

(***************************************************************************)
(* The row of the thread taken last, against the reactions of that thread. *)
(***************************************************************************)
\* The iteration run last went through: `thread` is its thread and the last
\* row is the row it pushed.
LastDone == pc = "loop" /\ ti >= 1

lastRow == rows[Len(rows)]

\* The positions of the reactions of u in the reaction list of th.
reactionsBy(th, u) == {i \in 1..Len(th.reactions) : th.reactions[i].user = u}

glyphAt(th, i) == getEmoji(th.reactions[i].content)

\* Every reaction of u on th, and there is one, has a glyph of G.
onlyReacts(th, u, G) ==
    /\ reactionsBy(th, u) # {}
    /\ \A i \in reactionsBy(th, u) : glyphAt(th, i) \in G

glyphCount(th, g) == Cardinality({i \in 1..Len(th.reactions) : glyphAt(th, i) = g})

\* The number of comments before the last one that count as reacted for u.
reactedBefore(u) == trackerReacted(SubSeq(comments, 1, Len(comments) - 1), u)

\* C11 as stated: a participant whose only reaction on a comment of someone
\* else is eyes is in the participation set of that comment and the comment
\* counts as reacted for them, while the two counts and their cell are as
\* without the reaction.
C11_EyesIsParticipation ==
    LastDone =>
        \A u \in Users :
            (u # thread.author /\ onlyReacts(thread, u, {Eyes})) =>
                /\ u \in lastRow.reactions
                /\ trackerReacted(comments, u) = reactedBefore(u) + 1
                /\ lastRow.cells[u] = ""
                /\ lastRow.thumbsUpCount = glyphCount(thread, ThumbsUp)
                /\ lastRow.thumbsDownCount = glyphCount(thread, ThumbsDown)

\* C11 amended: a participant whose only reaction on a comment of someone else
\* is eyes is registered in the participant list and nowhere else: they are
\* not in the participation set of the comment, the comment does not count as
\* reacted for them, their cell stays empty and the two counts are as without
\* the reaction.
C11_EyesOnlyRegisters ==
    LastDone =>
        \A u \in Users :
            (u # thread.author /\ onlyReacts(thread, u, {Eyes})) =>
                /\ u \in CommenterSet
                /\ u \notin lastRow.reactions
                /\ trackerReacted(comments, u) = reactedBefore(u)
                /\ lastRow.cells[u] = ""
                /\ lastRow.thumbsUpCount = glyphCount(thread, ThumbsUp)
                /\ lastRow.thumbsDownCount = glyphCount(thread, ThumbsDown)

C11_Witness ==
    /\ LastDone
    /\ Len(rows) = 2
    /\ thread.author = "a"
    /\ onlyReacts(thread, "b", {Eyes})
    /\ Len(thread.reactions) = 1
    /\ rows[1].proposer = "a"
    /\ rows[1].reactions = {"b"}
    /\ commenters = <<"a", "b">>
    /\ lastRow.reactions = {}
    /\ trackerReacted(comments, "b") = 1

\* The glyphs that the switch has no case for.
OtherGlyphs == {getEmoji(c) : c \in Contents} \ {Rocket, ThumbsUp, ThumbsDown, Eyes}

isOtherReaction(reaction) == getEmoji(reaction.content) \in OtherGlyphs

isUnknownReaction(reaction) == toUpperCase(reaction.content) \notin emojiMapKeys

warningOf(reaction) == [emoji |-> getEmoji(reaction.content), user |-> reaction.user]

\* The warnings for the reactions of seq, in the order of seq.
warningsOf(seq) == [i \in 1..Len(seq) |-> warningOf(seq[i])]

\* The position of the last reaction of u on th.
lastBy(th, u) ==
    CHOOSE i \in reactionsBy(th, u) : \A j \in reactionsBy(th, u) : j <= i

\* The cell of u in a row by author that no reaction has written.
blankCell(author, u) == IF u = author THEN Proposer ELSE ""

\* C12 as stated: a reaction whose glyph is none of rocket, thumbs-up,
\* thumbs-down and eyes is written to the reactor's cell as it came out of the
\* normalizer, and the warnings of a comment are those of its reactions whose
\* kind the normalizer does not know.
C12_OtherIsPassthrough ==
    LastDone =>
        /\ \A u \in Users :
              (u # thread.author /\ onlyReacts(thread, u, OtherGlyphs)) =>
                  lastRow.cells[u] = glyphAt(thread, lastBy(thread, u))
        /\ warned = warningsOf(SelectSeq(thread.reactions, isUnknownReaction))

\* C12 amended: a reaction whose glyph is none of rocket, thumbs-up,
\* thumbs-down and eyes is written nowhere in the record: a participant with
\* only such reactions on a comment is registered in the participant list, is
\* not in the participation set and keeps the cell they had; the two counts
\* are those of the thumbs-up and thumbs-down reactions; and every such
\* reaction is warned about, in list order, whether the normalizer knows its
\* kind or not.
C12_OtherOnlyWarns ==
    LastDone =>
        /\ \A u \in Users :
              onlyReacts(thread, u, OtherGlyphs) =>
                  /\ u \in CommenterSet
                  /\ u \notin lastRow.reactions
                  /\ lastRow.cells[u] = blankCell(thread.author, u)
        /\ lastRow.thumbsUpCount = glyphCount(thread, ThumbsUp)
        /\ lastRow.thumbsDownCount = glyphCount(thread, ThumbsDown)
        /\ warned = warningsOf(SelectSeq(thread.reactions, isOtherReaction))

C12_Witness ==
    /\ LastDone
    /\ thread.author = "a"
    /\ Len(thread.reactions) = 2
    /\ thread.reactions[1] = [content |-> "HEART", user |-> "b"]
    /\ thread.reactions[2] = [content |-> "party", user |-> "b"]
    /\ lastRow.cells["b"] = ""
    /\ lastRow.reactions = {}
    /\ warned = <<[emoji |-> Heart, user |-> "b"], [emoji |-> "party", user |-> "b"]>>
    /\ commenters = <<"a", "b">>

(***************************************************************************)
(* The participant list.                                                   *)
(***************************************************************************)
IsPrefix(s, t) == Len(s) <= Len(t) /\ SubSeq(t, 1, Len(s)) = s

NoDuplicate(seq) == \A i, j \in 1..Len(seq) : seq[i] = seq[j] => i = j

reactorsOf(th) == {th.reactions[i].user : i \in 1..Len(th.reactions)}

\* When the iteration on th meets u first: 0 for the author, else the position
\* of the first reaction of u.
firstSeen(th, u) ==
    IF u = th.author THEN 0
    ELSE CHOOSE i \in reactionsBy(th, u) : \A j \in reactionsBy(th, u) : i <= j

\* C13: during a pass the participant list has no duplicate and only grows at
\* its end; the iteration on a comment adds exactly the handles not yet
\* listed among the author and the reactors of the comment, the author before
\* the reactors and the reactors in list order, whatever their reactions are;
\* so the author of every row is listed.
C13_ParticipantList ==
    [][/\ NoDuplicate(commenters')
       /\ pc # "call" => IsPrefix(commenters, commenters')
       /\ \A j \in 1..Len(rows') : rows'[j].proposer \in {commenters'[i] : i \in 1..Len(commenters')}
       /\ Len(rows') = Len(rows) + 1 =>
             LET th == thread'
                 new == SubSeq(commenters', Len(commenters) + 1, Len(commenters'))
             IN  /\ {new[i] : i \in 1..Len(new)} = ({th.author} \cup reactorsOf(th)) \ CommenterSet
                 /\ \A i, j \in 1..Len(new) :
                       i < j => firstSeen(th, new[i]) < firstSeen(th, new[j])]_vars

C13_Witness ==
    /\ LastDone
    /\ Len(rows) = 2
    /\ rows[1].proposer = "b"
    /\ rows[2].proposer = "b"
    /\ thread.reactions = <<[content |-> "party", user |-> "a"],
                            [content |-> "ROCKET", user |-> "a"]>>
    /\ rows[1].reactions = {}
    /\ rows[2].reactions = {}
    /\ commenters = <<"b", "a">>

C15_GetEmoji ==
    probe.fn = "getEmoji" =>
        /\ \A k \in emojiMapKeys :
              probe.content \in spellingsOf(k) => probe.result = emojiMap(k)
        /\ probe.content \notin KnownSpellings => probe.result = probe.content
        /\ probe.content \in spellingsOf("THUMBS_UP") => probe.result = ThumbsUp
        /\ probe.content \in spellingsOf("THUMBS_DOWN") => probe.result = ThumbsDown
        /\ probe.content \in spellingsOf("LAUGH") => probe.result = Laugh
        /\ probe.content \in spellingsOf("HOORAY") => probe.result = Hooray
        /\ probe.content \in spellingsOf("CONFUSED") => probe.result = Confused
        /\ probe.content \in spellingsOf("HEART") => probe.result = Heart
        /\ probe.content \in spellingsOf("ROCKET") => probe.result = Rocket
        /\ probe.content \in spellingsOf("EYES") => probe.result = Eyes

C15_Witness ==
    /\ probe.fn = "getEmoji"
    /\ probe.content = "tHuMbS_uP"
    /\ probe.result = ThumbsUp

\* C16: getColorForPercentage gives every integer one band: Green from 90 up
\* (above 100 too), Yellow from 70 to 89, Orange from 50 to 69, Red below 50
\* (below 0 too).
C16_ColorBands ==
    probe.fn = "getColorForPercentage" =>
        LET p == probe.percentage
            band == probe.result
        IN  /\ band \in {Green, Yellow, Orange, Red}
            /\ band = Green <=> p >= 90
            /\ band = Yellow <=> (70 <= p /\ p <= 89)
            /\ band = Orange <=> (50 <= p /\ p <= 69)
            /\ band = Red <=> p < 50

C16_Witness ==
    /\ probe.fn = "getColorForPercentage"
    /\ probe.percentage > 100
    /\ probe.result = Green

\* C17: rows holds the records in the order of the threads of the response,
\* one record for each comment that was processed and no other: the i-th
\* record is that of the i-th thread, a pass that has not thrown has a record
\* for every thread taken so far, and the record added last is that of the
\* thread taken last.
C17_RowsInSourceOrder ==
    /\ \A i \in 1..Len(rows) : rows[i].id = i
    /\ pc = "loop" => Len(rows) = ti
    /\ (pc = "caught" /\ error = "type") => Len(rows) = ti - 1
    /\ LastDone => lastRow.proposer = thread.author

C17_Witness ==
    /\ LastDone
    /\ Len(rows) = 3
    /\ rows[1].id = 1 /\ rows[1].proposer = "a"
    /\ rows[2].id = 2 /\ rows[2].proposer = "b"
    /\ rows[3].id = 3 /\ rows[3].proposer = "a"
    /\ thread.author = "a"

\* C18: a rocket reaction sets the rocket flag of the comment and nothing in
\* its record: the flag is set exactly when a rocket is among the reactions;
\* a participant with only rocket reactions on the comment keeps the cell they
\* had and is not in the participation set; the two counts are the numbers of
\* thumbs-up and of thumbs-down reactions; and a comment with rocket
\* reactions only has the record of a comment without reactions.
C18_RocketOnlySetsFlag ==
    LastDone =>
        /\ hasRocket = (glyphCount(thread, Rocket) > 0)
        /\ \A u \in Users :
              onlyReacts(thread, u, {Rocket}) =>
                  /\ lastRow.cells[u] = blankCell(thread.author, u)
                  /\ u \notin lastRow.reactions
        /\ lastRow.thumbsUpCount = glyphCount(thread, ThumbsUp)
        /\ lastRow.thumbsDownCount = glyphCount(thread, ThumbsDown)
        /\ glyphCount(thread, Rocket) = Len(thread.reactions) =>
              [lastRow EXCEPT !.Reported = ""] = newRow(Len(rows), thread.author)

C18_Witness ==
    /\ LastDone
    /\ thread.author = "a"
    /\ thread.reactions = <<[content |-> "THUMBS_UP", user |-> "b"],
                            [content |-> "ROCKET", user |-> "b"]>>
    /\ hasRocket
    /\ lastRow.thumbsUpCount = 1
    /\ lastRow.thumbsDownCount = 0
    /\ lastRow.cells = [u \in Users |-> IF u = "a" THEN Proposer ELSE ThumbsUp]
    /\ lastRow.reactions = {"b"}

\* The participants with a thumbs-up or a thumbs-down among their reactions
\* on th.
votersOf(th) ==
    {u \in Users : \E i \in reactionsBy(th, u) : glyphAt(th, i) \in {ThumbsUp, ThumbsDown}}

\* C19: however many reactions a participant has on a comment, the comment
\* counts once: the participation set of a comment is the set of the
\* participants with a thumbs-up or thumbs-down reaction on it, a comment adds
\* 1 to reacted(P) when P is in that set and not its author and 0 otherwise,
\* and the returned reacted(P) is the number of returned comments not authored
\* by P with P in the participation set, which is the number of them with a
\* vote in the cell of P.
C19_CountedOncePerComment ==
    /\ LastDone =>
          /\ lastRow.reactions = votersOf(thread)
          /\ \A u \in Users :
                trackerReacted(comments, u) - reactedBefore(u) =
                    IF u # thread.author /\ u \in votersOf(thread) THEN 1 ELSE 0
    /\ Returned =>
          \A P \in CommenterSet :
              /\ reactionStats[P].reacted =
                    Cardinality({j \in 1..Len(rows) :
                                    rows[j].proposer # P /\ P \in rows[j].reactions})
              /\ reactionStats[P].reacted =
                    Cardinality({j \in 1..Len(rows) :
                                    /\ rows[j].proposer # P
                                    /\ rows[j].cells[P] \in {ThumbsUp, ThumbsDown}})

C19_Witness ==
    /\ pc = "render"
    /\ Len(rows) = 1
    /\ rows[1].proposer = "a"
    /\ rows[1].thumbsUpCount = 2
    /\ rows[1].reactions = {"b"}
    /\ reactionStats["b"].reacted = 1
    /\ reactionStats["b"].total = 1

\* The positions of the thumbs-up and thumbs-down reactions of u on th.
votesBy(th, u) == {i \in reactionsBy(th, u) : glyphAt(th, i) \in {ThumbsUp, ThumbsDown}}

\* C20 as stated: the cell of a participant with several reactions on a
\* comment holds the glyph of the last of them in list order.
C20_LastReactionRetained ==
    LastDone =>
        \A u \in Users :
            Cardinality(reactionsBy(thread, u)) >= 2 =>
                lastRow.cells[u] = glyphAt(thread, lastBy(thread, u))

\* C20 amended: the cell of a participant holds the glyph of the last of their
\* thumbs-up and thumbs-down reactions on the comment in list order, a later
\* vote replacing an earlier one; their rocket, eyes and other reactions,
\* earlier or later, are not written to it; without a vote the cell is the one
\* the row started with.
C20_LastVoteRetained ==
    LastDone =>
        \A u \in Users :
            LET votes == votesBy(thread, u)
            IN  IF votes = {}
                THEN lastRow.cells[u] = blankCell(thread.author, u)
                ELSE lastRow.cells[u] =
                        glyphAt(thread, CHOOSE i \in votes : \A j \in votes : j <= i)

C20_Witness ==
    /\ LastDone
    /\ thread.author = "a"
    /\ thread.reactions = <<[content |-> "THUMBS_UP", user |-> "b"],
                            [content |-> "THUMBS_DOWN", user |-> "b"]>>
    /\ lastRow.cells["b"] = ThumbsDown
    /\ lastRow.thumbsUpCount = 1
    /\ lastRow.thumbsDownCount = 1

(***************************************************************************)
(* The returned records as a whole.                                        *)
(***************************************************************************)
\* C21: in every record the cell of the author of the comment holds the
\* Proposer marker, whatever the reactions on the comment are, those of the
\* author included.
C21_AuthorCellIsProposer ==
    \A j \in 1..Len(rows) : rows[j].cells[rows[j].proposer] = Proposer

\* C22: in every record the two counts agree with the cells: thumbsUpCount is
\* the number of participants whose cell is thumbs-up and thumbsDownCount the
\* number of participants whose cell is thumbs-down.
C22_CountsAgreeWithCells ==
    \A j \in 1..Len(rows) :
        /\ rows[j].thumbsUpCount =
              Cardinality({u \in Users : rows[j].cells[u] = ThumbsUp})
        /\ rows[j].thumbsDownCount =
              Cardinality({u \in Users : rows[j].cells[u] = ThumbsDown})

\* The record rows[j] is that of the thread remote[j] (C17).
onRecord(h, j) == h = remote[j].author \/ h \in reactorsOf(remote[j])

\* C23: every handle of the returned participant list is the author of, or a
\* reactor on, a comment that has a record in the returned rows, also when a
\* caught exception ended the pass; so every participant with engagement
\* stats is one.
C23_ParticipantsAreInRows ==
    Returned =>
        /\ \A h \in CommenterSet : \E j \in 1..Len(rows) : onRecord(h, j)
        /\ \A h \in DOMAIN reactionStats : \E j \in 1..Len(rows) : onRecord(h, j)

\* C23 for the passes that no exception ended.
C23_CompletePass ==
    (Returned /\ error = "none") =>
        \A h \in CommenterSet : \E j \in 1..Len(rows) : onRecord(h, j)

====
